---- MODULE Spec2Model ----
(***************************************************************************)
(* The CARLA example client (Util/TestingClient/client_example.py):        *)
(* main()'s retry loop around run_carla_client(), which opens one          *)
(* connection, negotiates number_of_episodes episodes and drives           *)
(* frames_per_episode read/send cycles in each.                            *)
(*                                                                         *)
(* One action per blocking call of the program.  The server and the        *)
(* carla.client library are the environment: every call either returns,    *)
(* raises an exception, or is cut short by a KeyboardInterrupt.            *)
(*                                                                         *)
(* A local of run_carla_client is kept for as long as the program may      *)
(* still read it: settings, scene and player_start until start_episode is  *)
(* over, measurements and control until send_control is over.  After that  *)
(* the program rebinds the name before reading it again, and the model     *)
(* forgets the value.  Real numbers are counted in tenths.                 *)
(***************************************************************************)
EXTENDS Integers, Sequences, FiniteSets, TLC

\* ---------------------------------------------------------------- bounds

\* Sessions (calls of run_carla_client) the environment may disturb: the
\* session numbered MaxSessions and later ones meet no fault.
MaxSessions == 3

\* Largest number of player start spots a scene holds.
MaxSpots == 2

\* ------------------------------------------------------ program constants

number_of_episodes == 3

frames_per_episode == 300

\* time.sleep(1): the backoff, in seconds.
BackoffSeconds == 1

\* random.uniform(-1.0, 1.0), line 108: the bound of the manual steer, in tenths.
SteerLimit == 10

\* throttle=0.3, line 109, in tenths.
ManualThrottle == 3

\* random.uniform(-0.1, 0.1), line 122: the bound of the steer noise, in tenths.
NoiseLimit == 1

\* ------------------------------------------------------------- state

VARIABLES
    pc,            \* the blocking call the program is at, or how it ended
    session,       \* calls of make_carla_client made so far
    client,        \* the connection bound by `with ... as client` (0: none)
    open,          \* connections currently open (by session number)
    episode,       \* loop variable of line 38
    frame,         \* loop variable of line 87
    scene,         \* reply of request_new_episode: its player_start_spots
    player_start,  \* index chosen at line 79
    autopilot_on,  \* parameter of run_carla_client (args.autopilot)
    settings,      \* the CarlaSettings built at lines 44-67
    measurements,  \* the measurements bound at line 91
    control,       \* the control passed to send_control (lines 107-112, 121-123)
    received,      \* history: the measurements as the server sent them
    draw,          \* history: what random.uniform returned at line 108 or 122
    exception,     \* exception in flight or being handled ("none": none)
    recov,         \* history: what happened since the last connect began to fail
    failedAt,      \* history: 1-based episode the previous session failed in (0: none)
    issued,        \* history: server calls issued in this session, by kind
    acked,         \* history: server calls that returned in this session
    epIssued,      \* history: calls issued in the current episode
    epAcked        \* history: calls that returned in the current episode

negotiation == <<settings, scene, player_start>>
frameLocals == <<measurements, control, received, draw>>
locals == <<episode, frame, negotiation, frameLocals>>
history == <<issued, acked, epIssued, epAcked>>
vars == <<pc, session, client, open, episode, frame, scene, player_start,
          autopilot_on, settings, measurements, control, received, draw,
          exception, recov, failedAt, issued, acked, epIssued, epAcked>>

Ops == {"request", "start", "read", "write"}
Zero == [op \in Ops |-> 0]
Bump(rec, op) == [rec EXCEPT ![op] = @ + 1]

Max(a, b) == IF a >= b THEN a ELSE b
First(S) == CHOOSE x \in S : \A y \in S : x <= y

\* ------------------------------------------------------- environment

\* What the library raises when the link or the server misbehaves.
Retryable == {"ConnectionError", "ProtocolError"}
Faults == Retryable \cup {"ContractViolation"}
ConnectFaults == {"ConnectionError"}

\* The scenes a server may reply with: 0..MaxSpots start spots.
Scenes == {[i \in 1..n |-> i] : n \in 0..MaxSpots}

\* A control command: steer and throttle in tenths, three flags.
Control(s, th, b, hb, rv) ==
    [steer |-> s, throttle |-> th, brake |-> b, hand_brake |-> hb, reverse |-> rv]

\* The name `control` before line 107 or 121 binds it.
NoControl == Control(0, 0, FALSE, FALSE, FALSE)

\* The commands the server's AI may suggest (ai_control): one at rest and
\* one at the steer bound with every flag set.
AiControls ==
    {Control(0, 5, FALSE, FALSE, FALSE), Control(SteerLimit, 0, TRUE, TRUE, TRUE)}

\* The measurements a server may reply with; only ai_control is read by
\* the control code.
Measurements == {[ai_control |-> c] : c \in AiControls}

\* The name `measurements` before line 91 binds it.
NoMeasurements == [ai_control |-> NoControl]

\* The environment disturbs only the first MaxSessions - 1 sessions.
CanFail == session < MaxSessions

\* ------------------------------------------------------ python semantics

\* random.randint(a, b): the values it may return; none means ValueError.
RandInt(a, b) == a..b

\* random.uniform(-l, l): the values drawn are the two ends and the middle.
Uniform(l) == {-l, 0, l}

\* random.choice(seq): any element of the sequence.
Choice(seq) == {seq[i] : i \in DOMAIN seq}

\* A handler too narrow to catch what the calls raise.
CatchesNothing(e) == FALSE

\* `except Exception` at line 205 with a bare `except:` instead.
CatchesEverything(e) == TRUE

\* `except Exception` (line 205): every exception of the program but
\* KeyboardInterrupt derives from Exception.
IsCaught(e) == e # "KeyboardInterrupt"

\* A handler that goes back into the episode loop instead of leaving the
\* session.
HandlerResumes(e) == IF e = "KeyboardInterrupt" THEN "cancelled" ELSE "request"

\* Where an exception leaving run_carla_client lands: the handler of line
\* 205, or for a KeyboardInterrupt the one of line 214.
Handler(e) ==
    IF IsCaught(e) THEN "log"
    ELSE IF e = "KeyboardInterrupt" THEN "cancelled"
    ELSE "aborted"

\* ----------------------------------------------------------- the program

\* range(1, number_of_episodes): the first episode skipped.
EpisodeRangeFromOne == 1..(number_of_episodes - 1)

\* range(0, number_of_episodes), line 38.
EpisodeRange == 0..(number_of_episodes - 1)

\* range(0, frames_per_episode - 1): one frame short.
FrameRangeShort == 0..(frames_per_episode - 2)

\* One frame too many: range(0, frames_per_episode + 1).
FrameRangeLong == 0..frames_per_episode

\* range(0, frames_per_episode), line 87.
FrameRange == 0..(frames_per_episode - 1)

\* randint(0, number_of_player_starts - 1), without the max().
ChooseStartNoMax(n) == RandInt(0, n - 1)

\* An index drawn up to and including the number of start spots.
ChooseStartInclusive(n) == RandInt(0, n)

\* Lines 78-79: random.randint(0, max(0, number_of_player_starts - 1)).
ChooseStart(n) == RandInt(0, Max(0, n - 1))

\* The frame loop entered right after request_new_episode.
SkipStartEpisode == "read"

\* The blocking call that follows request_new_episode (lines 75-84).
AfterRequestNewEpisode == "start"

\* The control sent before the measurements are read.
SendBeforeRead == "write"

\* The first blocking call of the frame loop's body (lines 87-91).
FrameBody == "read"

\* The handler retrying at once, without the sleep.
RetryWithoutSleep == "connect"

\* What follows logging.error in the handler (lines 206-207).
AfterLogError == "sleep"

\* A loop that gives up after two sessions.
GiveUpAfterTwo(n) == n < 2

\* `while True` (line 192): whether the loop goes round again after the
\* handler, n sessions having been run.
KeepRetrying(n) == TRUE

\* Line 49: the weather ids chosen from.
WeatherIds == <<1, 3, 7, 8, 14>>

\* A camera as lines 56-60 and 64-66 set it up: name, post-processing,
\* image size in pixels, position in centimetres.
Camera(name, post, w, h, x, y, z) ==
    [name |-> name, PostProcessing |-> post, width |-> w, height |-> h,
     x |-> x, y |-> y, z |-> z]

\* Lines 56-60: the default camera, which captures RGB images.
Camera0 == Camera("CameraRGB", "default", 800, 600, 30, 0, 130)

\* Lines 64-66.
Camera1 == Camera("CameraDepth", "Depth", 800, 600, 30, 0, 130)

\* The name `settings` before line 44 binds it.
NoSettings ==
    [SynchronousMode |-> FALSE, NumberOfVehicles |-> 0, NumberOfPedestrians |-> 0,
     WeatherId |-> 0, seeds |-> "none", cameras |-> <<>>]

\* The settings built with the second add_camera forgotten.
BuildSettingsOneCamera(w) ==
    [SynchronousMode |-> TRUE, NumberOfVehicles |-> 30, NumberOfPedestrians |-> 50,
     WeatherId |-> w, seeds |-> "randomized", cameras |-> <<Camera0>>]

\* Lines 44-67: a new CarlaSettings with weather w, its seeds randomized
\* and the two cameras added in this order.
BuildSettings(w) ==
    [SynchronousMode |-> TRUE, NumberOfVehicles |-> 30, NumberOfPedestrians |-> 50,
     WeatherId |-> w, seeds |-> "randomized", cameras |-> <<Camera0, Camera1>>]

\* The manual control built from the server's suggestion, steer replaced.
ManualFromSuggestion(m, d) == [m.ai_control EXCEPT !.steer = d]

\* Lines 107-112: the manual control, d the steer drawn; the measurements
\* m are not read.
ManualControl(m, d) == Control(d, ManualThrottle, FALSE, FALSE, FALSE)

\* The relayed control with its steer clamped to the steer bounds.
AutopilotClamped(m, d) ==
    [m.ai_control EXCEPT
        !.steer = IF @ + d > SteerLimit THEN SteerLimit
                  ELSE IF @ + d < -SteerLimit THEN -SteerLimit
                  ELSE @ + d]

\* Lines 121-122: the server's suggestion with the noise d added to its steer.
AutopilotControl(m, d) == [m.ai_control EXCEPT !.steer = @ + d]

\* Lines 105-123: the control passed to send_control.
Decide(a, m, d) == IF a THEN AutopilotControl(m, d) ELSE ManualControl(m, d)

\* Lines 108 and 122: what random.uniform is asked for.
Draws(a) == IF a THEN Uniform(NoiseLimit) ELSE Uniform(SteerLimit)

\* Lines 121-122: `control` is the measurements' own ai_control object, so
\* the += on its steer is a write into the measurements; the manual branch
\* writes nothing.
BundleAfterDecide(a, m, d) ==
    IF a THEN [m EXCEPT !.ai_control = AutopilotControl(m, d)] ELSE m

\* run_carla_client ending without a value.
ReturnsNothing == FALSE

\* Line 126: what run_carla_client returns, `end` at line 195.
ReturnValue == TRUE

\* The cleanup of make_carla_client's context manager (carla.client): the
\* connection is closed.
Disconnect(conns, c) == conns \ {c}

\* The connection closed only when the body ends normally (no `with`).
ReleaseOnSuccessOnly(conns, c, e) == IF e = "none" THEN Disconnect(conns, c) ELSE conns

\* Leaving the `with` block of line 35, normally or by exception e: the
\* context manager's cleanup runs either way (lines 33-34).
Release(conns, c, e) == Disconnect(conns, c)

\* ------------------------------------------------------------- Init

Init ==
    /\ pc = "connect"
    /\ session = 0
    /\ client = 0
    /\ open = {}
    /\ episode = 0
    /\ frame = 0
    /\ scene = <<>>
    /\ player_start = 0
    /\ autopilot_on \in BOOLEAN
    /\ settings = NoSettings
    /\ measurements = NoMeasurements
    /\ control = NoControl
    /\ received = NoMeasurements
    /\ draw = 0
    /\ exception = "none"
    /\ recov = <<>>
    /\ failedAt = 0
    /\ issued = Zero
    /\ acked = Zero
    /\ epIssued = Zero
    /\ epAcked = Zero

\* The values the state takes: the locals of run_carla_client (lines 35,
\* 38, 75-79, 87), main's exception (line 205) and the history of calls.
TypeOK ==
    /\ pc \in {"connect", "request", "start", "read", "write", "with_exit",
               "log", "sleep", "done", "cancelled", "aborted"}
    /\ session \in 0..MaxSessions
    /\ client \in 0..MaxSessions
    /\ open \subseteq 1..MaxSessions
    /\ episode \in EpisodeRange
    /\ frame \in FrameRange
    /\ scene \in Scenes
    /\ player_start \in 0..MaxSpots
    /\ autopilot_on \in BOOLEAN
    /\ settings \in {NoSettings} \cup {BuildSettings(w) : w \in Choice(WeatherIds)}
    /\ received \in Measurements \cup {NoMeasurements}
    /\ draw \in Uniform(NoiseLimit) \cup Uniform(SteerLimit)
    /\ control.steer \in (-SteerLimit - NoiseLimit)..(SteerLimit + NoiseLimit)
    /\ measurements.ai_control.steer \in (-SteerLimit - NoiseLimit)..(SteerLimit + NoiseLimit)
    /\ exception \in Faults \cup {"none", "ValueError", "KeyboardInterrupt"}
    /\ failedAt \in 0..number_of_episodes
    /\ Len(recov) <= 4
    /\ \A h \in {issued, acked, epIssued, epAcked} :
         h \in [Ops -> 0..(number_of_episodes * frames_per_episode)]

\* An exception e raised by a call inside the `with` block: control leaves
\* the block through the context manager's exit.
Raise(e) ==
    /\ pc' = "with_exit"
    /\ exception' = e
    /\ recov' = <<<<"raise", e>>>>

\* The end of one pass of the episode loop's body (line 38): the next
\* episode, or past the loop and out of the `with` block.
NextEpisode ==
    IF episode + 1 \in EpisodeRange
    THEN pc' = "request" /\ episode' = episode + 1
    ELSE pc' = "with_exit" /\ UNCHANGED episode

\* Lines 35-38: make_carla_client(host, port) connects; the episode loop starts.
Connect ==
    /\ pc = "connect"
    /\ session' = session + 1
    /\ issued' = Zero /\ acked' = Zero /\ epIssued' = Zero /\ epAcked' = Zero
    /\ \/ /\ client' = session + 1
          /\ open' = open \cup {session + 1}
          /\ exception' = "none"
          /\ recov' = <<>>
          /\ IF EpisodeRange = {}
             THEN pc' = "with_exit" /\ UNCHANGED episode
             ELSE pc' = "request" /\ episode' = First(EpisodeRange)
          /\ UNCHANGED <<frame, negotiation, frameLocals, failedAt>>
       \/ /\ session + 1 < MaxSessions
          /\ \E e \in ConnectFaults :
               /\ exception' = e
               /\ recov' = <<<<"raise", e>>>>
               /\ pc' = Handler(e)
          /\ failedAt' = 0
          /\ UNCHANGED <<client, open, locals>>
    /\ UNCHANGED autopilot_on

\* Lines 44-79: the settings are built, request_new_episode is called and a
\* player start is chosen from the scene it returns.
RequestNewEpisode ==
    /\ pc = "request"
    /\ issued' = Bump(issued, "request")
    /\ epIssued' = Bump(Zero, "request")
    /\ \E w \in Choice(WeatherIds) : settings' = BuildSettings(w)
    /\ \/ /\ acked' = Bump(acked, "request")
          /\ epAcked' = Bump(Zero, "request")
          /\ \E s \in Scenes :
               /\ scene' = s
               /\ IF ChooseStart(Len(s)) = {}
                  THEN Raise("ValueError") /\ UNCHANGED player_start
                  ELSE /\ \E k \in ChooseStart(Len(s)) : player_start' = k
                       /\ pc' = AfterRequestNewEpisode
                       /\ UNCHANGED <<exception, recov>>
       \/ /\ CanFail
          /\ \E e \in Faults : Raise(e)
          /\ epAcked' = Zero
          /\ UNCHANGED <<scene, player_start, acked>>
    /\ UNCHANGED <<session, client, open, episode, frame, frameLocals, failedAt,
                   autopilot_on>>

\* Lines 84-87: start_episode(player_start) blocks until the server is
\* ready; the frame loop starts.
StartEpisode ==
    /\ pc = "start"
    /\ issued' = Bump(issued, "start")
    /\ epIssued' = Bump(epIssued, "start")
    /\ \/ /\ acked' = Bump(acked, "start")
          /\ epAcked' = Bump(epAcked, "start")
          /\ IF FrameRange = {}
             THEN NextEpisode /\ UNCHANGED frame
             ELSE pc' = FrameBody /\ frame' = First(FrameRange) /\ UNCHANGED episode
          /\ UNCHANGED <<exception, recov>>
       \/ /\ CanFail
          /\ \E e \in Faults : Raise(e)
          /\ UNCHANGED <<episode, frame, acked, epAcked>>
    /\ settings' = NoSettings /\ scene' = <<>> /\ player_start' = 0
    /\ UNCHANGED <<session, client, open, frameLocals, failedAt, autopilot_on>>

\* Lines 91-122: read_measurements; the measurements are printed and the
\* control to send is made ready.
ReadMeasurements ==
    /\ pc = "read"
    /\ issued' = Bump(issued, "read")
    /\ epIssued' = Bump(epIssued, "read")
    /\ \/ /\ acked' = Bump(acked, "read")
          /\ epAcked' = Bump(epAcked, "read")
          /\ \E m \in Measurements, d \in Draws(autopilot_on) :
               /\ received' = m
               /\ draw' = d
               /\ control' = Decide(autopilot_on, m, d)
               /\ measurements' = BundleAfterDecide(autopilot_on, m, d)
          /\ pc' = "write"
          /\ UNCHANGED <<exception, recov>>
       \/ /\ CanFail
          /\ \E e \in Faults : Raise(e)
          /\ UNCHANGED <<acked, epAcked, frameLocals>>
    /\ UNCHANGED <<session, client, open, episode, frame, negotiation, failedAt,
                   autopilot_on>>

\* Lines 105-123 and the loop headers of lines 87 and 38: send_control,
\* then the next frame, the next episode, or the end of the `with` block.
SendControl ==
    /\ pc = "write"
    /\ issued' = Bump(issued, "write")
    /\ epIssued' = Bump(epIssued, "write")
    /\ \/ /\ acked' = Bump(acked, "write")
          /\ epAcked' = Bump(epAcked, "write")
          /\ IF frame + 1 \in FrameRange
             THEN pc' = FrameBody /\ frame' = frame + 1 /\ UNCHANGED episode
             ELSE NextEpisode /\ UNCHANGED frame
          /\ UNCHANGED <<exception, recov>>
       \/ /\ CanFail
          /\ \E e \in Faults : Raise(e)
          /\ UNCHANGED <<episode, frame, acked, epAcked>>
    /\ measurements' = NoMeasurements /\ control' = NoControl
    /\ received' = NoMeasurements /\ draw' = 0
    /\ UNCHANGED <<session, client, open, negotiation, failedAt, autopilot_on>>

\* Leaving the `with` block (line 35): the connection is cleaned up and
\* run_carla_client returns True (lines 125-126, 202-203) or the exception
\* reaches main's handlers (lines 205, 214).  The locals of
\* run_carla_client are gone.
WithExit ==
    /\ pc = "with_exit"
    /\ open' = Release(open, client, exception)
    /\ client' = 0
    /\ IF exception = "none"
       THEN /\ pc' = IF ReturnValue THEN "done" ELSE "connect"
            /\ UNCHANGED <<recov, failedAt>>
       ELSE /\ pc' = Handler(exception)
            /\ recov' = Append(recov, <<"close">>)
            /\ failedAt' = episode + 1
    /\ episode' = 0 /\ frame' = 0
    /\ settings' = NoSettings /\ scene' = <<>> /\ player_start' = 0
    /\ measurements' = NoMeasurements /\ control' = NoControl
    /\ received' = NoMeasurements /\ draw' = 0
    /\ UNCHANGED <<session, exception, history, autopilot_on>>

\* Line 206: logging.error('exception: %s', exception).
LogError ==
    /\ pc = "log"
    /\ recov' = Append(recov, <<"log", exception>>)
    /\ pc' = AfterLogError
    /\ UNCHANGED <<session, client, open, locals, exception, failedAt, history,
                   autopilot_on>>

\* Line 207 and the loop of line 192: time.sleep(1), then round again.
Sleep ==
    /\ pc = "sleep"
    /\ recov' = Append(recov, <<"sleep", BackoffSeconds>>)
    /\ exception' = "none"
    /\ pc' = IF KeepRetrying(session) THEN "connect" ELSE "aborted"
    /\ UNCHANGED <<session, client, open, locals, failedAt, history, autopilot_on>>

\* A KeyboardInterrupt delivered while the program blocks in or runs up to
\* a call: inside the `with` block it unwinds through the context manager,
\* elsewhere it goes straight to the handler of line 214.
Interrupt ==
    /\ pc \in {"connect", "request", "start", "read", "write", "log", "sleep"}
    /\ exception' = "KeyboardInterrupt"
    /\ pc' = IF pc \in {"request", "start", "read", "write"}
             THEN "with_exit"
             ELSE Handler("KeyboardInterrupt")
    /\ UNCHANGED <<session, client, open, locals, recov, failedAt, history,
                   autopilot_on>>

Next ==
    \/ Connect
    \/ RequestNewEpisode
    \/ StartEpisode
    \/ ReadMeasurements
    \/ SendControl
    \/ WithExit
    \/ LogError
    \/ Sleep
    \/ Interrupt

Spec == Init /\ [][Next]_vars

\* The handler's steps and the connect are calls that return or raise:
\* logging.error and time.sleep(1) end, and make_carla_client either
\* connects or raises.  The server calls may block for ever and get no
\* fairness.
FairSpec == Spec /\ WF_vars(LogError) /\ WF_vars(Sleep) /\ WF_vars(Connect)

\* Every blocking call returns or raises, none blocks for ever: the program
\* is one thread, so whatever statement it is at is executed.
ReturningSpec ==
    /\ FairSpec
    /\ WF_vars(RequestNewEpisode) /\ WF_vars(StartEpisode)
    /\ WF_vars(ReadMeasurements) /\ WF_vars(SendControl) /\ WF_vars(WithExit)

\* ------------------------------------------------------------ properties

Cycles == number_of_episodes * frames_per_episode

\* The first session of a run, with no fault and no interrupt so far.
FaultFree == session = 1 /\ exception = "none" /\ recov = <<>>

\* The exception being unwound or handled is a KeyboardInterrupt.
Interrupted == exception = "KeyboardInterrupt"

\* The program is between a failure and the next connect.
Recovering ==
    \/ pc \in {"log", "sleep"}
    \/ pc = "with_exit" /\ exception # "none"

\* C1: a fault-free run negotiates exactly number_of_episodes episodes and
\* performs exactly number_of_episodes * frames_per_episode read/send
\* cycles; in each episode reads and sends alternate, a read first, and
\* every call issued has returned.
C1_FaultFreeRun ==
    FaultFree =>
        /\ issued = acked
        /\ epIssued.write <= epIssued.read
        /\ epIssued.read <= epIssued.write + 1
        /\ acked.request <= number_of_episodes
        /\ acked.read <= Cycles
        /\ pc = "done" =>
             /\ acked.request = number_of_episodes
             /\ acked.start = number_of_episodes
             /\ acked.read = Cycles
             /\ acked.write = Cycles

\* C1 witness: a run that completed in its first session.
C1_Witness ==
    pc = "done" /\ session = 1 /\ acked.write = Cycles /\ acked.start = number_of_episodes

\* C2: in every reachable state, faults and restarts included, within one
\* episode on one connection the k-th send_control is issued only after the
\* k-th read_measurements has returned, and the (k+1)-th read only after the
\* k-th send has returned: never two sends without a successful read
\* between them, never two reads without a send between them.
C2_StrictAlternation ==
    /\ epIssued.write <= epAcked.read
    /\ epAcked.read <= epIssued.read
    /\ epIssued.read <= epAcked.write + 1
    /\ epAcked.write <= epIssued.write

\* C2 witness: a send fails in the second frame of an episode of a
\* restarted session.
C2_Witness ==
    /\ session = 2 /\ pc = "with_exit" /\ exception = "ProtocolError"
    /\ epIssued.write = 2 /\ epAcked.write = 1 /\ epAcked.read = 2

\* C3: after an error the retry loop handles, nothing is issued before the
\* next connect; each connect begins a session whose counts start from
\* nothing, on a connection not open before, at episode 0 and frame 0; and
\* a run is done only when one single session has performed all episodes
\* and all cycles.
C3_NoResumption ==
    /\ [](pc = "request" /\ issued.request = 0 =>
            episode = 0 /\ acked = Zero /\ client = session)
    /\ [](pc = "read" /\ issued.read = 0 => episode = 0 /\ frame = 0)
    /\ [](pc = "done" =>
            /\ acked.request = number_of_episodes
            /\ acked.start = number_of_episodes
            /\ acked.read = Cycles
            /\ acked.write = Cycles)
    /\ [][(Recovering /\ ~Interrupted => issued' = issued /\ session' = session)
          /\ (pc = "connect" /\ pc' = "request" =>
                /\ session' = session + 1
                /\ issued' = Zero /\ acked' = Zero
                /\ client' \notin open /\ client' \in open'
                /\ episode' = 0 /\ frame' = 0)]_vars

\* C3 witness: the session before failed in its episode 2; the new session
\* has negotiated half of its first episode.
C3_Witness ==
    /\ session = 2 /\ failedAt = 2 /\ pc = "start"
    /\ episode = 0 /\ frame = 0 /\ acked.request = 1 /\ issued.read = 0

\* C4: at most one connection is open at any time; none is open while the
\* program connects, handles an error or sleeps, nor when it has ended; the
\* one open is the current session's.
C4_ConnectionReleased ==
    /\ Cardinality(open) <= 1
    /\ pc \in {"connect", "log", "sleep", "done", "cancelled", "aborted"} =>
         open = {} /\ client = 0
    /\ open \subseteq {client}

\* C4 witness: a session that had its connection open failed, and the
\* handler runs with the connection closed.
C4_Witness ==
    /\ pc = "log" /\ exception = "ProtocolError" /\ acked.read > 0
    /\ recov = << <<"raise", "ProtocolError">>, <<"close">> >>
    /\ open = {}

\* C5: a ContractViolation raised inside a session is never logged and
\* retried: it reaches neither the log nor the backoff, and the process
\* aborts.
C5_ContractViolationAborts ==
    exception = "ContractViolation" => pc \in {"with_exit", "aborted"}

\* C6: once a KeyboardInterrupt is observed the program only releases its
\* connection and ends: no log, no backoff, no connect and no server call
\* follows, and it ends with no connection open.
C6_InterruptExits ==
    /\ [](Interrupted => pc \in {"with_exit", "cancelled"})
    /\ [](pc = "cancelled" => Interrupted /\ open = {})
    /\ [][Interrupted =>
            /\ pc' = "cancelled"
            /\ open' = {}
            /\ session' = session /\ issued' = issued /\ acked' = acked
            /\ recov' \in {recov, Append(recov, <<"close">>)}]_vars

\* C6 witness: interrupted in the middle of a session, the program has
\* ended with its connection closed.
C6_Witness ==
    pc = "cancelled" /\ issued.read > issued.write /\ open = {} /\ client = 0

\* C7: the loop never gives up: it ends only with a session that completed
\* every episode or with an interrupt; from the handler it can always go on,
\* and the only way on is the next connect; and after the n-th session in
\* a row has failed, session n+1 is started unless an interrupt ends the
\* program first.
C7_UnboundedRetry ==
    /\ \A n \in 1..(MaxSessions - 1) :
         (pc = "log" /\ session = n) ~> (session = n + 1 \/ pc = "cancelled")
    /\ [](pc # "aborted")
    /\ [](pc = "done" => exception = "none" /\ acked.write = Cycles)
    /\ [](pc = "cancelled" => Interrupted)
    /\ [](pc \in {"log", "sleep", "connect"} =>
            ENABLED (LogError \/ Sleep \/ Connect))
    /\ [][(pc = "sleep" => pc' \in {"connect", "cancelled"})
          /\ (pc = "connect" /\ ~Interrupted' => session' = session + 1)]_vars

\* C7 witness: every session before it having failed, session MaxSessions
\* has connected.
C7_Witness ==
    session = MaxSessions /\ pc = "request" /\ client = MaxSessions

\* What lies between a failure with exception e and the next connect.
Recovery(e, connected) ==
    (IF connected THEN << <<"raise", e>>, <<"close">> >> ELSE << <<"raise", e>> >>)
        \o << <<"log", e>>, <<"sleep", BackoffSeconds>> >>

Prefix(s, n) == SubSeq(s, 1, n)

\* C8: between a failure the loop handles and the next connect there are,
\* in this order and once each: the close of the session's connection (when
\* it had one), the log of the exception raised, the backoff sleep; no
\* server call is issued in between.
C8_RecoverySequence ==
    /\ [](pc = "log" /\ ~Interrupted =>
            /\ open = {}
            /\ recov = Prefix(Recovery(exception, failedAt > 0), Len(recov))
            /\ Len(recov) = Len(Recovery(exception, failedAt > 0)) - 2)
    /\ [](pc = "sleep" /\ ~Interrupted =>
            /\ open = {}
            /\ recov = Prefix(Recovery(exception, failedAt > 0), Len(recov))
            /\ Len(recov) = Len(Recovery(exception, failedAt > 0)) - 1)
    /\ [](pc = "connect" /\ session > 0 /\ ~Interrupted =>
            /\ open = {}
            /\ Len(recov) > 0
            /\ recov = Recovery(recov[1][2], failedAt > 0))
    /\ [][Recovering /\ ~Interrupted => issued' = issued /\ acked' = acked]_vars

\* C8 witness: a session failed with its connection open, and the program
\* is back at connect with the close, the log and the sleep behind it.
C8_Witness ==
    /\ pc = "connect" /\ session = 1 /\ failedAt = 1
    /\ recov = Recovery("ConnectionError", TRUE)

\* C9: in every episode start_episode is issued only after
\* request_new_episode has returned, reads and sends only after
\* start_episode has returned, and the next episode's request_new_episode
\* only after all frames_per_episode cycles of this one are done.
C9_EpisodeOrder ==
    /\ [](/\ epIssued.request <= 1 /\ epIssued.start <= 1
          /\ (epIssued.start > 0 => epAcked.request = 1)
          /\ (epIssued.read > 0 \/ epIssued.write > 0 => epAcked.start = 1))
    /\ [][issued'.request = issued.request + 1 /\ issued.request > 0 =>
            /\ epAcked.start = 1
            /\ epAcked.read = frames_per_episode
            /\ epAcked.write = frames_per_episode]_vars

\* C9 witness: the second episode of a session has been negotiated and its
\* first read is due.
C9_Witness ==
    /\ pc = "read" /\ acked.request = 2 /\ acked.start = 2
    /\ acked.write = frames_per_episode /\ epIssued.read = 0

\* C10: choosing the player start never raises, and the index chosen for a
\* scene of n start spots lies in 0..max(0, n-1); it is 0 when n = 0.
C10_ChooseStart ==
    /\ exception # "ValueError"
    /\ pc \in {"start", "read", "write"} /\ epAcked.request = 1 =>
         /\ player_start >= 0
         /\ player_start <= Max(0, Len(scene) - 1)
         /\ (Len(scene) = 0 => player_start = 0)
         /\ (Len(scene) > 0 => player_start + 1 \in DOMAIN scene)

\* C10 witness: the server offered no start spot and index 0 was chosen.
C10_Witness ==
    pc = "start" /\ epAcked.request = 1 /\ Len(scene) = 0 /\ player_start = 0

\* C11: when a session has completed every episode the program signals
\* success and ends: leaving the `with` block normally leads to done, with
\* no connection open and no retry under way, and nothing at all follows
\* done; and from the point where no call fails any more, the run ends,
\* done unless an interrupt cancels it.
C11_CompletionTerminates ==
    /\ [](pc = "done" =>
            /\ exception = "none" /\ recov = <<>> /\ open = {} /\ client = 0
            /\ acked.start = number_of_episodes /\ acked.write = Cycles)
    /\ [][(pc = "with_exit" /\ exception = "none" => pc' = "done")
          /\ pc # "done"]_vars
    /\ (pc = "request" /\ ~CanFail) ~> (pc \in {"done", "cancelled"})

\* C11 witness: after a failed session, a session completed and the
\* program is done.
C11_Witness ==
    pc = "done" /\ session = 2 /\ failedAt = 3 /\ acked.write = Cycles

\* C12: in manual mode the control passed to send_control is the steer
\* drawn, within the steer bounds, with throttle 0.3 and brake, hand brake
\* and reverse off, whatever the measurements hold.
C12_ManualPolicy ==
    ~autopilot_on /\ pc = "write" =>
        /\ control = Control(draw, ManualThrottle, FALSE, FALSE, FALSE)
        /\ control.steer >= -SteerLimit /\ control.steer <= SteerLimit
        /\ control.throttle = ManualThrottle
        /\ ~control.brake /\ ~control.hand_brake /\ ~control.reverse

\* C12 witness: the server suggests no throttle and every flag set; the
\* manual control is about to be sent with the steer at its lower bound.
C12_Witness ==
    /\ ~autopilot_on /\ pc = "write" /\ control.steer = -SteerLimit
    /\ received.ai_control.throttle = 0 /\ received.ai_control.brake

\* C13: in autopilot mode the control passed to send_control has the
\* throttle, brake, hand brake and reverse the server suggested, and its
\* steer is the suggested steer plus the noise drawn, within the noise
\* bounds; nothing is clamped.
C13_AutopilotRelay ==
    autopilot_on /\ pc = "write" =>
        /\ control.throttle = received.ai_control.throttle
        /\ control.brake = received.ai_control.brake
        /\ control.hand_brake = received.ai_control.hand_brake
        /\ control.reverse = received.ai_control.reverse
        /\ control.steer = received.ai_control.steer + draw
        /\ draw >= -NoiseLimit /\ draw <= NoiseLimit

\* C13 witness: the suggested steer is at the bound and the steer about to
\* be sent is beyond it.
C13_Witness ==
    /\ autopilot_on /\ pc = "write"
    /\ received.ai_control.steer = SteerLimit /\ control.steer > SteerLimit

\* C14: whenever a server call is due or is issued, the connection it goes
\* to is the one this session opened, and it is open; no call goes to a
\* connection of an earlier session or to none.
C14_CallsOnOwnConnection ==
    /\ [](pc \in {"request", "start", "read", "write"} =>
            client > 0 /\ client = session /\ open = {client})
    /\ [][issued' # issued /\ issued' # Zero =>
            /\ session > 0 /\ client = session /\ client \in open
            /\ client' = client /\ session' = session]_vars

\* C14 witness: in the session after a discarded one a control is about to
\* be sent on the new connection.
C14_Witness ==
    session = 2 /\ failedAt > 0 /\ pc = "write" /\ client = 2 /\ open = {2}

ConnectFailed ==
    failedAt = 0 /\ Len(recov) > 0 /\ pc # "with_exit" /\ ~Interrupted

\* C16: when connect fails, the attempt issues no server call and leaves
\* no connection open; the ConnectionError reaches the handler, which logs
\* it, sleeps the backoff and goes back to connect.
C16_FailedConnect ==
    ConnectFailed =>
        /\ issued = Zero /\ open = {} /\ client = 0
        /\ CASE pc = "log" ->
                  exception = "ConnectionError"
                  /\ recov = Prefix(Recovery("ConnectionError", FALSE), 1)
             [] pc = "sleep" ->
                  exception = "ConnectionError"
                  /\ recov = Prefix(Recovery("ConnectionError", FALSE), 2)
             [] pc = "connect" ->
                  recov = Recovery("ConnectionError", FALSE)
             [] OTHER -> FALSE

\* C16 witness: the second connect in a row has failed, was logged and
\* slept on, and the third is due.
C16_Witness ==
    /\ pc = "connect" /\ session = 2 /\ failedAt = 0 /\ issued = Zero
    /\ recov = Recovery("ConnectionError", FALSE)

\* C17: making the control ready leaves the measurements as the server
\* sent them, in manual and in autopilot mode.
C17_DecideIsPure ==
    pc = "write" => measurements = received

\* The configuration every episode is meant to submit.
ValidConfig(s) ==
    /\ s.SynchronousMode
    /\ s.NumberOfVehicles = 30
    /\ s.NumberOfPedestrians = 50
    /\ s.WeatherId \in {1, 3, 7, 8, 14}
    /\ Len(s.cameras) = 2
    /\ s.cameras[1].name = "CameraRGB" /\ s.cameras[1].PostProcessing # "Depth"
    /\ s.cameras[2].name = "CameraDepth" /\ s.cameras[2].PostProcessing = "Depth"
    /\ \A i \in 1..2 :
         /\ s.cameras[i].width = 800 /\ s.cameras[i].height = 600
         /\ <<s.cameras[i].x, s.cameras[i].y, s.cameras[i].z>> = <<30, 0, 130>>

\* C18: the settings a request_new_episode was called with, in any episode
\* of any session, are synchronous mode, 30 vehicles, 50 pedestrians, a
\* weather id of the list and exactly the colour camera and the depth
\* camera, in this order; they are held for every negotiation under way,
\* and once submitted they are not written to, only dropped.
C18_EpisodeConfig ==
    /\ [](settings # NoSettings => ValidConfig(settings))
    /\ [](pc = "start" \/ (pc = "with_exit" /\ epIssued = Bump(Zero, "request")) =>
            settings # NoSettings)
    /\ [][settings # NoSettings /\ pc # "request" =>
            settings' \in {settings, NoSettings}]_vars

\* C18 witness: the second episode of a session started after a retry has
\* submitted its settings.
C18_Witness ==
    /\ session = 2 /\ failedAt > 0 /\ episode = 1 /\ pc = "start"
    /\ settings.WeatherId = 14 /\ Len(settings.cameras) = 2

\* C19: when start_episode is due, the request_new_episode of this episode
\* has returned on this session's connection, and the index to pass is a
\* position of the scene it returned whenever that scene has start spots
\* (0 when it has none); before a request_new_episode no scene of an
\* earlier episode or session is held.
C19_StartFromLatestScene ==
    /\ pc = "start" =>
         /\ epAcked.request = 1 /\ epIssued.start = 0
         /\ client = session /\ client \in open
         /\ scene \in Scenes
         /\ (Len(scene) > 0 => player_start \in 0..(Len(scene) - 1))
         /\ (Len(scene) = 0 => player_start = 0)
    /\ pc = "request" => scene = <<>> /\ player_start = 0

\* C19 witness: in the second episode the scene has two start spots and
\* the second was chosen.
C19_Witness ==
    pc = "start" /\ episode = 1 /\ Len(scene) = 2 /\ player_start = 1

====
